---------------------------- MODULE Spec2Model ----------------------------
(***************************************************************************)
(* A model of the notebooks of the Q-WeldGuards repository:                *)
(*   - Task-2 Parity_Classification.ipynb: the variational classifier, its *)
(*     loss and accuracy, the data cells and the 60-iteration training     *)
(*     loop followed by the evaluation on the test data;                   *)
(*   - the one-qubit codercises that hand a probability vector to a        *)
(*     sampler or return one.                                              *)
(*                                                                         *)
(* Numbers.  Python floats are modelled as exact rationals [n, d] in       *)
(* lowest terms (d > 0), so that 1e-5, a mean and a bias keep their        *)
(* values.  Rotation angles are integers counting multiples of pi.  On     *)
(* that grid qml.Rot maps a basis state to a basis state (up to a phase),  *)
(* so the four-qubit register is a vector of bits and <Z> is +1 or -1.     *)
(***************************************************************************)
EXTENDS Integers, Sequences, FiniteSets

(***************************************************************************)
(* Bounds of the exploration (not program constants).                      *)
(***************************************************************************)
\* rotation angles theta of the explored weights are 0..MaxAngle (times pi)
MaxAngle == 1
\* the explored biases are the integers 0..MaxBias
MaxBias == 1
\* list lengths and numerators explored when a pure function is called alone
MaxLen == 3

(***************************************************************************)
(* Program constants.                                                      *)
(***************************************************************************)
num_qubits == 4
num_layers == 2
batch_size == 5
NumIterations == 60

(***************************************************************************)
(* Exact rationals.                                                        *)
(***************************************************************************)
RECURSIVE GCD(_, _)
GCD(a, b) == IF b = 0 THEN a ELSE GCD(b, a % b)

IAbs(i) == IF i < 0 THEN -i ELSE i

\* n/d in lowest terms, d > 0
Q(n, d) == LET g == GCD(IAbs(n), d) IN [n |-> n \div g, d |-> d \div g]

QInt(i) == [n |-> i, d |-> 1]
QAdd(a, b) == Q(a.n * b.d + b.n * a.d, a.d * b.d)
QSub(a, b) == Q(a.n * b.d - b.n * a.d, a.d * b.d)
QMul(a, b) == Q(a.n * b.n, a.d * b.d)
QDivInt(a, k) == Q(a.n, a.d * k)
QAbs(a) == [n |-> IAbs(a.n), d |-> a.d]
\* n1/d1 < n2/d2, by integer parts and then by the reciprocals of the fractional
\* parts, so that no product leaves the range of the integers
RECURSIVE FracLess(_, _, _, _)
FracLess(n1, d1, n2, d2) ==
    LET q1 == n1 \div d1
        q2 == n2 \div d2
        r1 == n1 % d1
        r2 == n2 % d2
    IN  IF q1 # q2 THEN q1 < q2
        ELSE IF r2 = 0 THEN FALSE
        ELSE IF r1 = 0 THEN TRUE
        ELSE FracLess(d2, r2, d1, r1)

QLess(a, b) == FracLess(a.n, a.d, b.n, b.d)
\* np.sign
QSign(a) == QInt(IF a.n > 0 THEN 1 ELSE IF a.n < 0 THEN -1 ELSE 0)

RECURSIVE QSum(_)
QSum(s) == IF s = <<>> THEN QInt(0) ELSE QAdd(Head(s), QSum(Tail(s)))

\* np.mean of a non-empty list
QMean(s) == QDivInt(QSum(s), Len(s))

Range(f) == {f[i] : i \in DOMAIN f}

(***************************************************************************)
(* The data files.  data/parity_train.txt and data/parity_test.txt are     *)
(* read back from the rows the notebook printed after loading them: four   *)
(* bits and a label in {0, 1} per row.                                     *)
(***************************************************************************)
parity_train ==
    << <<0, 0, 0, 1, 1>>,
       <<0, 0, 1, 0, 1>>,
       <<0, 1, 0, 0, 1>>,
       <<0, 1, 0, 1, 0>>,
       <<0, 1, 1, 0, 0>>,
       <<0, 1, 1, 1, 1>>,
       <<1, 0, 0, 0, 1>>,
       <<1, 0, 0, 1, 0>>,
       <<1, 0, 1, 1, 1>>,
       <<1, 1, 1, 1, 0>> >>

\* (mutant) a test table whose first row is the first training row
parity_test_seen ==
    << <<0, 0, 0, 1, 1>>,
       <<0, 0, 1, 1, 0>>,
       <<1, 0, 1, 0, 0>>,
       <<1, 1, 1, 0, 1>>,
       <<1, 1, 0, 0, 0>>,
       <<1, 1, 0, 1, 1>> >>

parity_test ==
    << <<0, 0, 0, 0, 0>>,
       <<0, 0, 1, 1, 0>>,
       <<1, 0, 1, 0, 0>>,
       <<1, 1, 1, 0, 1>>,
       <<1, 1, 0, 0, 0>>,
       <<1, 1, 0, 1, 1>> >>

\* data[:, :-1]: every row without its last column
AllButLast(data) == [i \in 1..Len(data) |-> SubSeq(data[i], 1, Len(data[i]) - 1)]

\* data[:, -1]: the last column
LastColumn(data) == [i \in 1..Len(data) |-> data[i][Len(data[i])]]

\* (mutant) the labels left in {0, 1}
LabelsNotShifted(Yraw) == Yraw

\* Y * 2 - 1: shift label from {0, 1} to {-1, 1}
ShiftLabels(Yraw) == [i \in 1..Len(Yraw) |-> Yraw[i] * 2 - 1]

(***************************************************************************)
(* The circuit.  A quantum function queues its operations on a tape in the *)
(* order it calls them; the device then applies the tape to |0000> and     *)
(* evaluates the measurement.  Wires are 0..3.                             *)
(***************************************************************************)
Wires == 0..(num_qubits - 1)

BasisStateOp(x) == [name |-> "BasisState", params |-> x, wires |-> <<0, 1, 2, 3>>]
RotOp(angles, wire) == [name |-> "Rot", params |-> angles, wires |-> <<wire>>]
CNOTOp(w) == [name |-> "CNOT", params |-> <<>>, wires |-> w]

\* def state_preparation(x)
state_preparation(x) == << BasisStateOp(x) >>

\* for wire in range(4): qml.Rot(*layer_weights[wire], wires=wire)
Rotations(layer_weights) ==
    [i \in 1..num_qubits |-> RotOp(layer_weights[i], i - 1)]

\* for wires in ([0, 1], [1, 2], [2, 3], [3, 0]): qml.CNOT(wires)
CNOTRing == << CNOTOp(<<0, 1>>), CNOTOp(<<1, 2>>), CNOTOp(<<2, 3>>), CNOTOp(<<3, 0>>) >>

\* (mutant) the ring of CNOTs queued before the rotations
LayerCNOTsFirst(layer_weights) == CNOTRing \o Rotations(layer_weights)

\* def layer(layer_weights)
layer(layer_weights) == Rotations(layer_weights) \o CNOTRing

\* for layer_weights in weights: layer(layer_weights)
RECURSIVE Layers(_)
Layers(weights) ==
    IF weights = <<>> THEN <<>>
    ELSE layer(Head(weights)) \o Layers(Tail(weights))

\* the operations circuit(weights, x) queues, in order
CircuitTape(weights, x) == state_preparation(x) \o Layers(weights)

\* the observable circuit(weights, x) returns the expectation value of
CircuitMeasurement == [name |-> "expval", obs |-> "PauliZ", wires |-> <<0>>]

\* one operation applied to a basis state, bits = [wire -> 0 or 1]
ApplyOp(bits, op) ==
    CASE op.name = "BasisState" ->
           [w \in Wires |-> op.params[w + 1]]
      [] op.name = "Rot" ->
           \* RZ(omega) RY(theta) RZ(phi) with theta = k pi: a bit flip when k is odd
           [bits EXCEPT ![op.wires[1]] = (bits[op.wires[1]] + op.params[2]) % 2]
      [] op.name = "CNOT" ->
           [bits EXCEPT ![op.wires[2]] = (bits[op.wires[2]] + bits[op.wires[1]]) % 2]

RECURSIVE RunTape(_, _)
RunTape(bits, tape) ==
    IF tape = <<>> THEN bits
    ELSE RunTape(ApplyOp(bits, Head(tape)), Tail(tape))

\* the expectation value of the measurement m in a basis state
Expval(bits, m) == QInt(1 - 2 * bits[m.wires[1]])

\* @qml.qnode(dev) def circuit(weights, x)
circuit(weights, x) ==
    Expval(RunTape([w \in Wires |-> 0], CircuitTape(weights, x)), CircuitMeasurement)

\* def variational_classifier(weights, bias, x)
variational_classifier(weights, bias, x) == QAdd(circuit(weights, x), bias)

(***************************************************************************)
(* Loss and accuracy.  labels are integers, predictions rationals.         *)
(***************************************************************************)
\* (mutant) the mean of the differences, not of their squares
MeanDifference(labels, predictions) ==
    QMean([i \in 1..Len(labels) |-> QSub(QInt(labels[i]), predictions[i])])

\* np.mean((labels - qml.math.stack(predictions)) ** 2)
square_loss(labels, predictions) ==
    QMean([i \in 1..Len(labels) |->
              QMul(QSub(QInt(labels[i]), predictions[i]),
                   QSub(QInt(labels[i]), predictions[i]))])

\* the threshold 1e-5 of accuracy
Tolerance == Q(1, 100000)

Min2(a, b) == IF a < b THEN a ELSE b

\* (mutant) abs(l - p) <= 1e-5
MatchesInclusive(labels, predictions) ==
    Cardinality({i \in 1..Min2(Len(labels), Len(predictions)) :
                    ~QLess(Tolerance, QAbs(QSub(QInt(labels[i]), predictions[i])))})

\* sum(abs(l - p) < 1e-5 for l, p in zip(labels, predictions))
Matches(labels, predictions) ==
    Cardinality({i \in 1..Min2(Len(labels), Len(predictions)) :
                    QLess(QAbs(QSub(QInt(labels[i]), predictions[i])), Tolerance)})

\* def accuracy(labels, predictions)
accuracy(labels, predictions) == Q(Matches(labels, predictions), Len(labels))

\* predictions = [variational_classifier(weights, bias, x) for x in X]
Outputs(weights, bias, X) ==
    [i \in 1..Len(X) |-> variational_classifier(weights, bias, X[i])]

\* def cost(weights, bias, X, Y)
cost(weights, bias, X, Y) == square_loss(Y, Outputs(weights, bias, X))

\* [np.sign(variational_classifier(weights, bias, x)) for x in X]
SignPredictions(weights, bias, X) ==
    [i \in 1..Len(X) |-> QSign(variational_classifier(weights, bias, X[i]))]

(***************************************************************************)
(* What the model explores of the real-valued inputs.                      *)
(***************************************************************************)
\* the weight tensors explored: shape (num_layers, num_qubits, 3), every angle 0
\* but theta of wire 0 in the first layer
WeightGrid ==
    {[l \in 1..num_layers |->
         [q \in 1..num_qubits |->
             IF l = 1 /\ q = 1 THEN <<0, th, 0>> ELSE <<0, 0, 0>>]] :
        th \in 0..MaxAngle}

\* 0.01 * np.random.randn(num_layers, num_qubits, 3): angles of the order of
\* 0.01 rad, which on the grid of multiples of pi is the all-zero tensor
SmallWeights == [l \in 1..num_layers |-> [q \in 1..num_qubits |-> <<0, 0, 0>>]]

\* the biases explored
BiasGrid == {QInt(b) : b \in 0..MaxBias}

\* (mutant) high taken as inclusive, as random.randint does
RandintInclusive(low, high) == low..high

\* np.random.randint(low, high): the integers from low (inclusive) to high (exclusive)
RandintRange(low, high) == low..(high - 1)

\* the rows of the training table whose draw is explored: the first and the last
ExploredRows == {0, Len(parity_train) - 1}

\* the outcomes of np.random.randint(0, n, (size,)) that are explored
RandintOutcomes(n, size) ==
    [1..size -> {d \in RandintRange(0, n) : d \in ExploredRows \/ d >= n}]

(***************************************************************************)
(* The state: the notebook's global variables, the position in the         *)
(* notebook (pc), the NumPy generator, the optimizer object and the        *)
(* printed output of the training cell.                                    *)
(***************************************************************************)
VARIABLES
    pc,               \* the cell or statement to run next
    rng,              \* NumPy's global generator: seeded?, values drawn since
    data,             \* np.loadtxt's result
    X, Y,             \* training inputs and shifted labels
    weights_init, bias_init,
    opt,              \* the NesterovMomentumOptimizer object
    weights, bias,
    it,               \* the loop variable of "for it in range(60)"
    batch_index, X_batch, Y_batch,
    predictions, current_cost, acc,
    printed_iters,    \* the Iter column of the training output, one entry per line
    last_line,        \* the last report line printed: Iter, Cost, Accuracy
    opt_steps,        \* how many times opt.step has been called
    X_test, Y_test, predictions_test, acc_test,
    call              \* a function called on its own: name, arguments, result, and
                      \* the result of evaluating it once more on the same arguments

vars == << pc, rng, data, X, Y, weights_init, bias_init, opt, weights, bias, it,
           batch_index, X_batch, Y_batch, predictions, current_cost, acc,
           printed_iters, last_line, opt_steps,
           X_test, Y_test, predictions_test, acc_test, call >>

\* a float variable that has not been assigned
NoNumber == [n |-> 0, d |-> 0]

dataVars == << data, X, Y >>
modelVars == << weights_init, bias_init >>
trainVars == << weights, bias, it >>
batchVars == << batch_index, X_batch, Y_batch >>
evalVars == << predictions, current_cost, acc >>
outVars == << printed_iters, last_line >>
testVars == << X_test, Y_test, predictions_test, acc_test >>
notebookVars == << pc, rng, dataVars, modelVars, opt, trainVars, batchVars, evalVars,
                   outVars, opt_steps, testVars >>

Init ==
    /\ pc = "load"
    /\ rng = [seeded |-> FALSE, drawn |-> 0]
    /\ data = <<>> /\ X = <<>> /\ Y = <<>>
    /\ weights_init = <<>> /\ bias_init = NoNumber
    /\ opt = [stepsize |-> NoNumber, momentum |-> NoNumber, accumulation |-> "unset"]
    /\ weights = <<>> /\ bias = NoNumber
    /\ it = -1
    /\ batch_index = <<>> /\ X_batch = <<>> /\ Y_batch = <<>>
    /\ predictions = <<>> /\ current_cost = NoNumber /\ acc = NoNumber
    /\ printed_iters = <<>>
    /\ last_line = [iter |-> 0, cost |-> NoNumber, acc |-> NoNumber]
    /\ opt_steps = 0
    /\ X_test = <<>> /\ Y_test = <<>> /\ predictions_test = <<>> /\ acc_test = NoNumber
    /\ call = [fn |-> "none", args |-> <<>>, result |-> <<>>, again |-> <<>>]

(***************************************************************************)
(* Cell 5: load the training data and shift the labels.                    *)
(***************************************************************************)
LoadTrainingData ==
    /\ pc = "load"
    /\ data' = parity_train
    /\ X' = AllButLast(parity_train)
    /\ Y' = ShiftLabels(LastColumn(parity_train))
    /\ pc' = "init_model"
    /\ UNCHANGED << rng, modelVars, opt, trainVars, batchVars, evalVars, outVars,
                    opt_steps, testVars, call >>

(***************************************************************************)
(* Cell 6: seed the generator and draw the initial weights.                *)
(***************************************************************************)
\* (mutant) cell 6 without np.random.seed(0): the weights come from wherever
\* the generator's stream stands
InitModelUnseeded ==
    /\ pc = "init_model"
    /\ weights_init' = SmallWeights
    /\ bias_init' = QInt(0)
    /\ rng' = [rng EXCEPT !.drawn = @ + num_layers * num_qubits * 3]
    /\ pc' = "init_opt"
    /\ UNCHANGED << dataVars, opt, trainVars, batchVars, evalVars, outVars,
                    opt_steps, testVars, call >>

InitModel ==
    /\ pc = "init_model"
    /\ weights_init' = SmallWeights
    /\ bias_init' = QInt(0)
    /\ rng' = [seeded |-> TRUE, drawn |-> num_layers * num_qubits * 3]
    /\ pc' = "init_opt"
    /\ UNCHANGED << dataVars, opt, trainVars, batchVars, evalVars, outVars,
                    opt_steps, testVars, call >>

(***************************************************************************)
(* Cell 7: opt = NesterovMomentumOptimizer(0.5); batch_size = 5.           *)
(***************************************************************************)
InitOptimizer ==
    /\ pc = "init_opt"
    /\ opt' = [stepsize |-> Q(1, 2), momentum |-> Q(9, 10), accumulation |-> "None"]
    /\ pc' = "train"
    /\ UNCHANGED << rng, dataVars, modelVars, trainVars, batchVars, evalVars, outVars,
                    opt_steps, testVars, call >>

(***************************************************************************)
(* Cell 8: the training loop.                                              *)
(***************************************************************************)
\* A[index] for an index array: row index[i] of A at position i (0-based indices)
TakeRows(A, index) == [i \in 1..Len(index) |-> A[index[i] + 1]]

\* whether every index addresses a row of A (otherwise NumPy raises IndexError)
IndicesInBounds(A, index) == \A i \in 1..Len(index) : index[i] \in 0..(Len(A) - 1)

\* (mutant) one iteration too many
LoopRangeOneMore == 0..NumIterations

\* range(60)
LoopRange == 0..(NumIterations - 1)

\* (mutant) the cost and accuracy computed before the optimizer step
LoopBodyEvaluateFirst == << "sample", "evaluate", "step" >>

\* the statements of the loop body, in the order the cell writes them
LoopBody == << "sample", "step", "evaluate" >>

\* the statement that runs after statement stmt of the loop body
Following(stmt) ==
    LET i == CHOOSE j \in 1..Len(LoopBody) : LoopBody[j] = stmt
    IN  IF i < Len(LoopBody) THEN LoopBody[i + 1] ELSE "next_it"

\* weights = weights_init; bias = bias_init; the loop takes its first value
StartTraining ==
    /\ pc = "train"
    /\ weights' = weights_init
    /\ bias' = bias_init
    /\ IF LoopRange = {}
         THEN /\ pc' = "test"
              /\ it' = it
         ELSE /\ pc' = LoopBody[1]
              /\ it' = 0
    /\ UNCHANGED << rng, dataVars, modelVars, opt, batchVars, evalVars, outVars,
                    opt_steps, testVars, call >>

\* batch_index = np.random.randint(0, len(X), (batch_size,))
\* X_batch = X[batch_index]; Y_batch = Y[batch_index]
SampleBatch ==
    /\ pc = "sample"
    /\ \E index \in RandintOutcomes(Len(X), batch_size) :
          /\ batch_index' = index
          /\ IF IndicesInBounds(X, index)
               THEN /\ X_batch' = TakeRows(X, index)
                    /\ Y_batch' = TakeRows(Y, index)
                    /\ pc' = Following("sample")
               ELSE /\ UNCHANGED << X_batch, Y_batch >>
                    /\ pc' = "IndexError"
    /\ rng' = [rng EXCEPT !.drawn = @ + batch_size]
    /\ UNCHANGED << dataVars, modelVars, opt, trainVars, evalVars, outVars,
                    opt_steps, testVars, call >>

\* what opt.step(cost, weights, bias, X=X_batch, Y=Y_batch) may return: the
\* optimizer is PennyLane's, and any explored weights and bias may come back
StepOutcomes(w, b, Xb, Yb) == WeightGrid \X BiasGrid

\* weights, bias = opt.step(cost, weights, bias, X=X_batch, Y=Y_batch)
OptimizerStep ==
    /\ pc = "step"
    /\ \E r \in StepOutcomes(weights, bias, X_batch, Y_batch) :
          /\ weights' = r[1]
          /\ bias' = r[2]
    /\ opt' = [opt EXCEPT !.accumulation = "array"]
    /\ opt_steps' = opt_steps + 1
    /\ pc' = Following("step")
    /\ UNCHANGED << rng, dataVars, modelVars, it, batchVars, evalVars, outVars,
                    testVars, call >>

\* the inputs and labels the loop computes the reported cost and accuracy over
ReportedOver == << X, Y >>

\* predictions = [np.sign(variational_classifier(weights, bias, x)) for x in X]
\* current_cost = cost(weights, bias, X, Y); acc = accuracy(Y, predictions)
\* print(f"Iter: {it+1:4d} | Cost: {current_cost:0.7f} | Accuracy: {acc:0.7f}")
EvaluateAndReport ==
    /\ pc = "evaluate"
    /\ LET over == ReportedOver
           p == SignPredictions(weights, bias, over[1])
           c == cost(weights, bias, over[1], over[2])
           a == accuracy(over[2], p)
       IN  /\ predictions' = p
           /\ current_cost' = c
           /\ acc' = a
           /\ printed_iters' = Append(printed_iters, it + 1)
           /\ last_line' = [iter |-> it + 1, cost |-> c, acc |-> a]
    /\ pc' = Following("evaluate")
    /\ UNCHANGED << rng, dataVars, modelVars, opt, trainVars, batchVars,
                    opt_steps, testVars, call >>

\* for it in range(60): the next value, or the end of the loop
AdvanceLoop ==
    /\ pc = "next_it"
    /\ IF it + 1 \in LoopRange
         THEN /\ it' = it + 1
              /\ pc' = LoopBody[1]
         ELSE /\ it' = it
              /\ pc' = "test"
    /\ UNCHANGED << rng, dataVars, modelVars, opt, weights, bias, batchVars, evalVars,
                    outVars, opt_steps, testVars, call >>

(***************************************************************************)
(* Cell 9: the test data.                                                  *)
(***************************************************************************)
EvaluateTest ==
    /\ pc = "test"
    /\ data' = parity_test
    /\ X_test' = AllButLast(parity_test)
    /\ Y_test' = ShiftLabels(LastColumn(parity_test))
    /\ predictions_test' = SignPredictions(weights, bias, AllButLast(parity_test))
    /\ acc_test' = accuracy(ShiftLabels(LastColumn(parity_test)),
                            SignPredictions(weights, bias, AllButLast(parity_test)))
    /\ pc' = "done"
    /\ UNCHANGED << rng, X, Y, modelVars, opt, trainVars, batchVars, evalVars, outVars,
                    opt_steps, call >>

Next ==
    \/ LoadTrainingData
    \/ InitModel
    \/ InitOptimizer
    \/ StartTraining
    \/ SampleBatch
    \/ OptimizerStep
    \/ EvaluateAndReport
    \/ AdvanceLoop
    \/ EvaluateTest

Spec == Init /\ [][Next]_vars

(***************************************************************************)
(* The one-qubit codercises.  An amplitude vector is [a, k]: the integer   *)
(* amplitudes a[1], a[2] divided by sqrt(2)^k; a matrix is [m, k] alike.   *)
(***************************************************************************)
NumMeas == 100

RECURSIVE Pow2(_)
Pow2(k) == IF k = 0 THEN 1 ELSE 2 * Pow2(k - 1)

\* (mutant) U without its normalisation
UNotNormalised == [m |-> << <<1, 1>>, <<1, -1>> >>, k |-> 0]

\* U = np.array([[1, 1], [1, -1]]) / np.sqrt(2)
U == [m |-> << <<1, 1>>, <<1, -1>> >>, k |-> 1]

\* the matrices of qml.Hadamard and qml.PauliX
HadamardMatrix == [m |-> << <<1, 1>>, <<1, -1>> >>, k |-> 1]
PauliXMatrix == [m |-> << <<0, 1>>, <<1, 0>> >>, k |-> 0]

\* np.dot(M, state)
Dot(M, state) ==
    [a |-> [i \in 1..2 |-> M.m[i][1] * state.a[1] + M.m[i][2] * state.a[2]],
     k |-> M.k + state.k]

\* np.abs(state[i]) ** 2
AbsSquared(state, i) == Q(state.a[i] * state.a[i], Pow2(state.k))

\* def initialize_state(): return np.array([1, 0])
initialize_state == [a |-> <<1, 0>>, k |-> 0]

\* def apply_u(state): return np.dot(U, state)
apply_u(state) == Dot(U, state)

\* the probability vector measure_state hands to the sampler
MeasureProbabilities(state) == << AbsSquared(state, 1), AbsSquared(state, 2) >>

\* np.random.choice([0, 1], p=p, size=size): ValueError unless p sums to 1;
\* otherwise size samples of the outcomes of positive probability.  The array
\* returned is kept as the number of ones in it.
ChoiceOutcomes(p, size) ==
    IF QSum(p) # QInt(1)
      THEN {[error |-> "ValueError", ones |-> 0]}
      ELSE {[error |-> "", ones |-> j] : j \in {i \in 0..size :
                                                  /\ i > 0 => p[2].n > 0
                                                  /\ i < size => p[1].n > 0}}

\* def measure_state(state, num_meas): the vector p and what the sampler may return
measure_state(state, num_meas) ==
    {[p |-> MeasureProbabilities(state), outcome |-> o] :
        o \in ChoiceOutcomes(MeasureProbabilities(state), num_meas)}

\* (mutant) quantum_algorithm measuring |0> without applying U
quantum_algorithm_without_u == measure_state(initialize_state, NumMeas)

\* def quantum_algorithm(): psi = initialize_state(); psi = apply_u(psi)
\*                          outcomes = measure_state(psi, 100)
quantum_algorithm == measure_state(apply_u(initialize_state), NumMeas)

\* the operations apply_h_and_measure(state) queues
HMeasureTape(state) ==
    (IF state = 1 THEN << PauliXMatrix >> ELSE << >>) \o << HadamardMatrix >>

RECURSIVE RunQubit(_, _)
RunQubit(state, tape) ==
    IF tape = <<>> THEN state
    ELSE RunQubit(Dot(Head(tape), state), Tail(tape))

\* qml.probs(wires=0)
Probs(state) == << AbsSquared(state, 1), AbsSquared(state, 2) >>

\* @qml.qnode(dev) def apply_h_and_measure(state)
apply_h_and_measure(state) == Probs(RunQubit([a |-> <<1, 0>>, k |-> 0], HMeasureTape(state)))

\* Codercise I.1.3, def measure_state(state, num_meas): prob_0 is
\* |state[0]|^2, and each of the num_meas outcomes is 0 when a draw x of
\* np.random.random(), uniform over [0, 1), has x < prob_0, and 1 otherwise.
\* The array returned is kept as the number of ones in it.
measure_state_1_3(state, num_meas) ==
    LET prob_0 == AbsSquared(state, 1)
    IN  {[prob_0 |-> prob_0, ones |-> j] :
            j \in {i \in 0..num_meas :
                      /\ i > 0 => QLess(prob_0, QInt(1))
                      /\ i < num_meas => QLess(QInt(0), prob_0)}}

(***************************************************************************)
(* The multi-qubit circuits.  An amplitude is a complex number             *)
(* (c[1] + c[2] w + c[3] w^2 + c[4] w^3) / 2^k with integer c, where       *)
(* w = exp(i pi/4), so that w^2 = i, w^4 = -1 and 1/sqrt(2) = (w - w^3)/2; *)
(* it is kept reduced (some c odd, or k = 0), which makes equal numbers    *)
(* equal records.  A state of n wires is the vector of its 2^n amplitudes, *)
(* indexed from 0 with wire 0 the most significant bit.                    *)
(***************************************************************************)
RECURSIVE Amp(_, _)
Amp(c, k) ==
    IF k > 0 /\ \A j \in 1..4 : c[j] % 2 = 0
      THEN Amp([j \in 1..4 |-> c[j] \div 2], k - 1)
      ELSE [c |-> c, k |-> k]

AmpZero == Amp(<<0, 0, 0, 0>>, 0)
AmpOne == Amp(<<1, 0, 0, 0>>, 0)

AmpAdd(x, y) ==
    LET k == IF x.k > y.k THEN x.k ELSE y.k
    IN  Amp([j \in 1..4 |-> x.c[j] * Pow2(k - x.k) + y.c[j] * Pow2(k - y.k)], k)

AmpNeg(x) == Amp([j \in 1..4 |-> -x.c[j]], x.k)

\* x times w^j
RECURSIVE AmpTimesOmega(_, _)
AmpTimesOmega(x, j) ==
    IF j = 0 THEN x
    ELSE AmpTimesOmega(Amp(<< -x.c[4], x.c[1], x.c[2], x.c[3] >>, x.k), j - 1)

\* x / sqrt(2) = x (w - w^3) / 2
AmpOverSqrt2(x) ==
    LET y == AmpAdd(AmpTimesOmega(x, 1), AmpNeg(AmpTimesOmega(x, 3)))
    IN  Amp(y.c, y.k + 1)

\* bit of wire in index idx of a state of n wires, and idx with that bit flipped
WireBit(n, idx, wire) == (idx \div Pow2(n - 1 - wire)) % 2
FlipWire(n, idx, wire) ==
    IF WireBit(n, idx, wire) = 0 THEN idx + Pow2(n - 1 - wire)
    ELSE idx - Pow2(n - 1 - wire)

\* |0...0> on n wires, as the device starts
ZeroState(n) == [idx \in 0..(Pow2(n) - 1) |-> IF idx = 0 THEN AmpOne ELSE AmpZero]

\* the operations the circuits queue
PauliXGate(wire) == [name |-> "PauliX", wires |-> << wire >>]
HadamardGate(wire) == [name |-> "Hadamard", wires |-> << wire >>]
CNOTGate(control, target) == [name |-> "CNOT", wires |-> << control, target >>]
\* RZ(quarters * pi/2)
RZGate(quarters, wire) == [name |-> "RZ", quarters |-> quarters, wires |-> << wire >>]
MultiControlledXGate(control_wires, wire, control_values) ==
    [name |-> "MultiControlledX", wires |-> control_wires \o << wire >>,
     control_values |-> control_values]

\* the device applying one operation to a state of n wires
ApplyGate(n, st, g) ==
    CASE g.name = "PauliX" ->
           [idx \in DOMAIN st |-> st[FlipWire(n, idx, g.wires[1])]]
      [] g.name = "Hadamard" ->
           [idx \in DOMAIN st |->
              LET other == st[FlipWire(n, idx, g.wires[1])]
              IN  IF WireBit(n, idx, g.wires[1]) = 0
                    THEN AmpOverSqrt2(AmpAdd(st[idx], other))
                    ELSE AmpOverSqrt2(AmpAdd(other, AmpNeg(st[idx])))]
      [] g.name = "CNOT" ->
           [idx \in DOMAIN st |->
              IF WireBit(n, idx, g.wires[1]) = 1
                THEN st[FlipWire(n, idx, g.wires[2])] ELSE st[idx]]
      [] g.name = "MultiControlledX" ->
           [idx \in DOMAIN st |->
              IF \A j \in 1..Len(g.control_values) :
                    WireBit(n, idx, g.wires[j]) = g.control_values[j]
                THEN st[FlipWire(n, idx, g.wires[Len(g.wires)])] ELSE st[idx]]
      [] g.name = "RZ" ->
           \* RZ(phi) = diag(exp(-i phi/2), exp(i phi/2)); phi/2 = quarters * pi/4
           [idx \in DOMAIN st |->
              IF WireBit(n, idx, g.wires[1]) = 0
                THEN AmpTimesOmega(st[idx], (8 - g.quarters) % 8)
                ELSE AmpTimesOmega(st[idx], (8 + g.quarters) % 8)]

\* qml.state() after the queued operations, from a given state
RECURSIVE RunGates(_, _, _)
RunGates(n, st, gates) ==
    IF gates = <<>> THEN st
    ELSE RunGates(n, ApplyGate(n, st, Head(gates)), Tail(gates))

\* Codercise 1.14.1: the four Bell-state circuits on two wires
prepare_psi_plus ==
    RunGates(2, ZeroState(2), << HadamardGate(0), CNOTGate(0, 1) >>)

prepare_psi_minus ==
    RunGates(2, ZeroState(2), << PauliXGate(0), HadamardGate(0), CNOTGate(0, 1) >>)

prepare_phi_plus ==
    RunGates(2, ZeroState(2), << HadamardGate(1), PauliXGate(0), CNOTGate(1, 0) >>)

\* (mutant) prepare_phi_minus without its first PauliX on wire 1
prepare_phi_minus_without_x ==
    RunGates(2, ZeroState(2),
             << HadamardGate(1), PauliXGate(0), PauliXGate(1), CNOTGate(1, 0) >>)

prepare_phi_minus ==
    RunGates(2, ZeroState(2),
             << PauliXGate(1), HadamardGate(1), PauliXGate(0), PauliXGate(1),
                CNOTGate(1, 0) >>)

\* Codercise 1.14.2, apply_control_sequence(state): the first two wires are set
\* to state, the third to |->
PrepareControls(state) ==
    (IF state[1] = 1 THEN << PauliXGate(0) >> ELSE << >>)
    \o (IF state[2] = 1 THEN << PauliXGate(1) >> ELSE << >>)

PrepareTarget == << PauliXGate(2), HadamardGate(2) >>

\* (mutant) the multiplexer with the two RZ rotations in each other's place
MultiplexerRZSwapped ==
    << MultiControlledXGate(<<0, 1>>, 2, <<0, 1>>),
       HadamardGate(2),
       MultiControlledXGate(<<0, 1>>, 2, <<1, 0>>),
       HadamardGate(2),
       RZGate(1, 2),
       MultiControlledXGate(<<0, 1>>, 2, <<1, 1>>),
       RZGate(-1, 2) >>

\* the multiplexer: controls 01, then 10 between Hadamards, then 11 between
\* RZ(-pi/2) and RZ(pi/2)
Multiplexer ==
    << MultiControlledXGate(<<0, 1>>, 2, <<0, 1>>),
       HadamardGate(2),
       MultiControlledXGate(<<0, 1>>, 2, <<1, 0>>),
       HadamardGate(2),
       RZGate(-1, 2),
       MultiControlledXGate(<<0, 1>>, 2, <<1, 1>>),
       RZGate(1, 2) >>

apply_control_sequence(state) ==
    RunGates(3, ZeroState(3), PrepareControls(state) \o PrepareTarget \o Multiplexer)

(***************************************************************************)
(* Functions called on their own, with arguments from bounded sets: one    *)
(* call per run, and then one more evaluation on the same arguments.       *)
(***************************************************************************)
\* labels and predictions handed to accuracy: +1/-1 labels; predictions that
\* are a label, 0, or a label missed by 5e-6 or by exactly 1e-5
LabelValues == {-1, 1}
PredictionValues ==
    {QInt(-1), QInt(0), QInt(1), Q(199999, 200000), Q(100001, 100000)}

SeqsUpTo(S, lo, hi) == UNION {[1..n -> S] : n \in lo..hi}

CallAccuracy ==
    /\ call.fn = "none"
    /\ \E labels \in SeqsUpTo(LabelValues, 1, MaxLen),
          preds \in SeqsUpTo(PredictionValues, 0, MaxLen) :
          call' = [fn |-> "accuracy", args |-> << labels, preds >>,
                   result |-> accuracy(labels, preds), again |-> <<>>]
    /\ UNCHANGED notebookVars

\* weights with an angle of its own at every position
DistinctAngles ==
    [l \in 1..num_layers |->
        [q \in 1..num_qubits |->
            LET base == 3 * (num_qubits * (l - 1) + (q - 1))
            IN  << base + 1, base + 2, base + 3 >>]]

CallWeights == WeightGrid \cup {DistinctAngles}
CallBiases == BiasGrid \cup {Q(-1, 2), QInt(-2)}

CallCost ==
    /\ call.fn = "none"
    /\ \E w \in CallWeights, b \in CallBiases,
          index \in SeqsUpTo(ExploredRows, 1, MaxLen) :
          \E labels \in [1..Len(index) -> LabelValues] :
             call' = [fn |-> "cost",
                      args |-> << w, b, TakeRows(AllButLast(parity_train), index), labels >>,
                      result |-> cost(w, b, TakeRows(AllButLast(parity_train), index),
                                      labels),
                      again |-> <<>>]
    /\ UNCHANGED notebookVars

BitStrings == [1..num_qubits -> {0, 1}]

CallCircuit ==
    /\ call.fn = "none"
    /\ \E w \in CallWeights, x \in BitStrings :
          call' = [fn |-> "circuit", args |-> << w, x >>,
                   result |-> [tape |-> CircuitTape(w, x),
                               measurement |-> CircuitMeasurement,
                               value |-> circuit(w, x)],
                   again |-> <<>>]
    /\ UNCHANGED notebookVars

CallQuantumAlgorithm ==
    /\ call.fn = "none"
    /\ \E r \in quantum_algorithm :
          call' = [fn |-> "quantum_algorithm", args |-> <<>>, result |-> r,
                   again |-> <<>>]
    /\ UNCHANGED notebookVars

CallApplyHAndMeasure ==
    /\ call.fn = "none"
    /\ \E state \in {0, 1} :
          call' = [fn |-> "apply_h_and_measure", args |-> << state >>,
                   result |-> apply_h_and_measure(state), again |-> <<>>]
    /\ UNCHANGED notebookVars

\* the states handed to measure_state: |0>, |1> and U|0>
MeasuredStates ==
    {initialize_state, [a |-> <<0, 1>>, k |-> 0], apply_u(initialize_state)}

CallMeasureState ==
    /\ call.fn = "none"
    /\ \E state \in MeasuredStates, num_meas \in 1..MaxLen :
          \E r \in measure_state_1_3(state, num_meas) :
             call' = [fn |-> "measure_state", args |-> << state, num_meas >>,
                      result |-> r, again |-> <<>>]
    /\ UNCHANGED notebookVars

BellCircuits ==
    {"prepare_psi_plus", "prepare_psi_minus", "prepare_phi_plus", "prepare_phi_minus"}

\* the circuit of that name, run
BellState(name) ==
    CASE name = "prepare_psi_plus" -> prepare_psi_plus
      [] name = "prepare_psi_minus" -> prepare_psi_minus
      [] name = "prepare_phi_plus" -> prepare_phi_plus
      [] name = "prepare_phi_minus" -> prepare_phi_minus

CallPrepareBell ==
    /\ call.fn = "none"
    /\ \E name \in BellCircuits :
          call' = [fn |-> name, args |-> <<>>, result |-> BellState(name),
                   again |-> <<>>]
    /\ UNCHANGED notebookVars

ControlStates == [1..2 -> {0, 1}]

CallApplyControlSequence ==
    /\ call.fn = "none"
    /\ \E state \in ControlStates :
          call' = [fn |-> "apply_control_sequence", args |-> << state >>,
                   result |-> apply_control_sequence(state), again |-> <<>>]
    /\ UNCHANGED notebookVars

\* what an evaluation of fn on args may return
Evaluations(fn, args) ==
    CASE fn = "accuracy" -> {accuracy(args[1], args[2])}
      [] fn = "cost" -> {cost(args[1], args[2], args[3], args[4])}
      [] fn = "circuit" -> {[tape |-> CircuitTape(args[1], args[2]),
                             measurement |-> CircuitMeasurement,
                             value |-> circuit(args[1], args[2])]}
      [] fn = "quantum_algorithm" -> quantum_algorithm
      [] fn = "apply_h_and_measure" -> {apply_h_and_measure(args[1])}
      [] fn = "measure_state" -> measure_state_1_3(args[1], args[2])
      [] fn \in BellCircuits -> {BellState(fn)}
      [] fn = "apply_control_sequence" -> {apply_control_sequence(args[1])}

\* the same function evaluated once more on the same arguments
CallAgain ==
    /\ call.fn # "none"
    /\ call.again = <<>>
    /\ \E r \in Evaluations(call.fn, call.args) :
          call' = [call EXCEPT !.again = << r >>]
    /\ UNCHANGED notebookVars

NextFn ==
    \/ CallAccuracy
    \/ CallCost
    \/ CallCircuit
    \/ CallQuantumAlgorithm
    \/ CallApplyHAndMeasure
    \/ CallMeasureState
    \/ CallPrepareBell
    \/ CallApplyControlSequence
    \/ CallAgain

SpecFn == Init /\ [][NextFn]_vars

(***************************************************************************)
(* Properties of the training notebook, checked under Spec.                *)
(***************************************************************************)
\* the values drawn from the generator by the end of cell 6
DrawnByInit == num_layers * num_qubits * 3

\* the number of batches sampled so far
BatchesSampled == (rng.drawn - DrawnByInit) \div batch_size

\* C1: in every iteration the batch is sampled first, then the optimizer step
\* replaces weights and bias, and only then are predictions, cost and accuracy
\* computed: when the step of iteration it+1 runs, it+1 batches have been sampled
\* and it steps taken; when the evaluation runs, it+1 steps have been taken and
\* it lines printed; and the line printed for iteration it+1 carries the cost and
\* the accuracy over the whole training set X, Y under the weights and bias that
\* step it+1 returned (they are still the current ones when the line is out).
C1_StepThenEvaluateOverAllOfX ==
    /\ pc = "step" =>
          /\ BatchesSampled = it + 1
          /\ opt_steps = it
          /\ Len(printed_iters) = it
    /\ pc = "evaluate" =>
          /\ BatchesSampled = it + 1
          /\ opt_steps = it + 1
          /\ Len(printed_iters) = it
    /\ pc = "next_it" =>
          /\ BatchesSampled = it + 1
          /\ opt_steps = it + 1
          /\ Len(printed_iters) = it + 1
          /\ last_line.iter = it + 1
          /\ last_line.cost = cost(weights, bias, AllButLast(parity_train), Y)
          /\ last_line.acc =
                accuracy(Y, SignPredictions(weights, bias, AllButLast(parity_train)))
          /\ Len(predictions) = Len(parity_train)

\* C1 witness: the second report line is out, the step changed the weights, and
\* the cost over the batch differs from the reported cost over X
C1_Witness ==
    /\ pc = "next_it"
    /\ it = 1
    /\ weights # weights_init
    /\ last_line.cost # cost(weights, bias, X_batch, Y_batch)
    /\ last_line.acc # accuracy(Y_batch, SignPredictions(weights, bias, X_batch))

\* C2: the loop takes exactly 60 optimizer steps and then ends: the lines printed
\* are numbered 1, 2, ... in order, one per step taken and never more than 60;
\* once the loop is left 60 steps have been taken and 60 lines printed; and the
\* notebook never stops before its last cell has run (it is at a statement that
\* can run, never at an exception, until it is done).
C2_SixtyStepsThenDone ==
    /\ opt_steps <= 60
    /\ Len(printed_iters) <= opt_steps
    /\ opt_steps <= Len(printed_iters) + 1
    /\ \A i \in 1..Len(printed_iters) : printed_iters[i] = i
    /\ pc \in {"test", "done"} =>
          /\ opt_steps = 60
          /\ Len(printed_iters) = 60
          /\ last_line.iter = 60
    /\ pc \in {"load", "init_model", "init_opt", "train", "sample", "step",
              "evaluate", "next_it", "test", "done"}
    /\ pc = "sample" => RandintOutcomes(Len(X), batch_size) # {}
    /\ pc = "step" => StepOutcomes(weights, bias, X_batch, Y_batch) # {}

\* C2 witness: the notebook has run to its end, with 60 steps and 60 lines
C2_Witness ==
    /\ pc = "done"
    /\ opt_steps = 60
    /\ printed_iters[60] = 60

RECURSIVE Ones(_)
Ones(x) == IF x = <<>> THEN 0 ELSE Head(x) + Ones(Tail(x))

\* the +1/-1 parity label of a bit string
ParityLabel(x) == IF Ones(x) % 2 = 1 THEN 1 ELSE -1

\* C3: for every row of the training data and of the test data, the shifted label
\* is +1 exactly when the 4-bit input holds an odd number of 1s and -1 otherwise;
\* the shift maps the file's label 0 to -1 and 1 to +1.
C3_ShiftedLabelIsParity ==
    /\ pc # "load" =>
          /\ Len(X) = Len(parity_train) /\ Len(Y) = Len(parity_train)
          /\ \A i \in 1..Len(X) :
                /\ Len(X[i]) = num_qubits
                /\ Y[i] = ParityLabel(X[i])
                /\ parity_train[i][5] = 0 => Y[i] = -1
                /\ parity_train[i][5] = 1 => Y[i] = 1
    /\ pc = "done" =>
          /\ Len(X_test) = Len(parity_test) /\ Len(Y_test) = Len(parity_test)
          /\ \A i \in 1..Len(X_test) :
                /\ Len(X_test[i]) = num_qubits
                /\ Y_test[i] = ParityLabel(X_test[i])
                /\ parity_test[i][5] = 0 => Y_test[i] = -1
                /\ parity_test[i][5] = 1 => Y_test[i] = 1

\* C3 witness: both tables are loaded and each holds both labels
C3_Witness ==
    /\ pc = "done"
    /\ {-1, 1} \subseteq Range(Y)
    /\ {-1, 1} \subseteq Range(Y_test)

\* C5: a sampled batch is batch_size = 5 index draws, each in 0..len(X)-1, and
\* X_batch[i], Y_batch[i] are the input and the label of training row
\* batch_index[i]; no draw ever leaves the table.
C5_BatchOfFiveAlignedRows ==
    /\ pc # "IndexError"
    /\ batch_index # <<>> =>
          /\ Len(batch_index) = 5
          /\ Len(X_batch) = 5
          /\ Len(Y_batch) = 5
          /\ \A i \in 1..5 :
                /\ batch_index[i] \in 0..(Len(X) - 1)
                /\ X_batch[i] = X[batch_index[i] + 1]
                /\ Y_batch[i] = Y[batch_index[i] + 1]

\* C5 witness: a batch that holds the same row twice, and the first and the last
\* row of the table
C5_Witness ==
    /\ pc = "step"
    /\ batch_index[1] = batch_index[2]
    /\ batch_index[3] = 0
    /\ batch_index[4] = Len(X) - 1
    /\ X_batch[1] = X_batch[2]
    /\ X_batch[3] # X_batch[4]

\* C8: the test inputs are unseen by training: the test table is not loaded
\* before the loop has ended, none of its inputs is a training input, and the 10
\* training inputs and the 6 test inputs together are the 16 four-bit strings.
C8_TestInputsUnseen ==
    /\ pc # "done" => X_test = <<>> /\ Y_test = <<>>
    /\ pc = "done" =>
          /\ Range(X) \cap Range(X_test) = {}
          /\ Cardinality(Range(X)) = 10
          /\ Cardinality(Range(X_test)) = 6
          /\ Range(X) \cup Range(X_test) = [1..4 -> {0, 1}]

\* C8 witness: training has ended and the test inputs are loaded
C8_Witness ==
    /\ pc = "done"
    /\ Len(X) = 10
    /\ Len(X_test) = 6
    /\ opt_steps = NumIterations

(***************************************************************************)
(* Properties of the functions called on their own, checked under SpecFn.  *)
(***************************************************************************)
\* |l - n/d| < 1e-5 for an integer l, in integers: |l d - n| * 100000 < d
WithinTolerance(l, p) ==
    LET diff == IAbs(l * p.d - p.n)
    IN  /\ diff <= p.d \div 100000
        /\ diff * 100000 < p.d

\* the positions of labels whose prediction exists and is within 1e-5 of the label
MatchingPositions(labels, preds) ==
    {i \in 1..Len(labels) : i <= Len(preds) /\ WithinTolerance(labels[i], preds[i])}

\* C6: accuracy(labels, predictions) is the number of positions i with
\* |labels[i] - predictions[i]| < 1e-5 divided by len(labels); it lies between 0
\* and 1 and is 1 exactly when every label has a prediction within 1e-5 of it.
C6_AccuracyIsShareOfMatches ==
    call.fn = "accuracy" =>
        LET labels == call.args[1]
            preds == call.args[2]
            count == Cardinality(MatchingPositions(labels, preds))
        IN  /\ call.result.n * Len(labels) = count * call.result.d
            /\ call.result.d > 0
            /\ 0 <= call.result.n
            /\ call.result.n <= call.result.d
            /\ call.result = QInt(1) <=> MatchingPositions(labels, preds) = 1..Len(labels)

\* C6 witness: of two predictions for the label 1, the one 5e-6 below it counts
\* and the one exactly 1e-5 above it does not: the accuracy is 1/2
C6_Witness ==
    /\ call.fn = "accuracy"
    /\ call.args[1] = << 1, 1 >>
    /\ call.args[2] = << Q(199999, 200000), Q(100001, 100000) >>
    /\ call.result = Q(1, 2)

\* label - (circuit(weights, x) + bias)
Residual(w, b, x, y) == QSub(QInt(y), QAdd(circuit(w, x), b))

RECURSIVE SumOfSquaredResiduals(_, _, _, _, _)
SumOfSquaredResiduals(w, b, Xs, Ys, i) ==
    IF i = 0 THEN QInt(0)
    ELSE QAdd(SumOfSquaredResiduals(w, b, Xs, Ys, i - 1),
              QMul(Residual(w, b, Xs[i], Ys[i]), Residual(w, b, Xs[i], Ys[i])))

\* C7: cost(weights, bias, X, Y) is the mean over the given inputs of
\* (label - model output)^2 with model output circuit(weights, x) + bias; it is
\* never negative, and it is 0 exactly when every model output equals its label.
C7_CostIsMeanSquaredError ==
    call.fn = "cost" =>
        LET w == call.args[1]
            b == call.args[2]
            Xs == call.args[3]
            Ys == call.args[4]
        IN  /\ QMul(call.result, QInt(Len(Xs))) =
                  SumOfSquaredResiduals(w, b, Xs, Ys, Len(Xs))
            /\ call.result.n >= 0
            /\ call.result.d > 0
            /\ call.result = QInt(0) <=>
                  \A i \in 1..Len(Xs) : QAdd(circuit(w, Xs[i]), b) = QInt(Ys[i])

\* C7 witness: a cost of 0 over more than one input, under a bias that is not 0
C7_Witness ==
    /\ call.fn = "cost"
    /\ Len(call.args[3]) > 1
    /\ call.args[2] # QInt(0)
    /\ call.result = QInt(0)

\* C9: circuit(weights, x) queues the basis-state preparation of x first, then
\* one layer per entry of weights in order (2 layers), and measures Pauli-Z on
\* wire 0; in layer l the rotations of wires 0, 1, 2, 3 (with the angles
\* weights[l][wire]) come before the CNOTs, which run round the ring (0, 1),
\* (1, 2), (2, 3), (3, 0); the value returned is that of this sequence applied
\* to |0000>.
C9_PreparationThenLayersThenMeasure ==
    call.fn = "circuit" =>
        LET w == call.args[1]
            x == call.args[2]
            tape == call.result.tape
            ring == << <<0, 1>>, <<1, 2>>, <<2, 3>>, <<3, 0>> >>
        IN  /\ Len(w) = 2
            /\ Len(tape) = 1 + 8 * Len(w)
            /\ tape[1].name = "BasisState"
            /\ tape[1].params = x
            /\ tape[1].wires = << 0, 1, 2, 3 >>
            /\ \A l \in 1..Len(w) :
                  /\ \A q \in 0..3 :
                        /\ tape[1 + 8 * (l - 1) + q + 1].name = "Rot"
                        /\ tape[1 + 8 * (l - 1) + q + 1].wires = << q >>
                        /\ tape[1 + 8 * (l - 1) + q + 1].params = w[l][q + 1]
                  /\ \A j \in 1..4 :
                        /\ tape[1 + 8 * (l - 1) + 4 + j].name = "CNOT"
                        /\ tape[1 + 8 * (l - 1) + 4 + j].wires = ring[j]
            /\ call.result.measurement.name = "expval"
            /\ call.result.measurement.obs = "PauliZ"
            /\ call.result.measurement.wires = << 0 >>
            /\ call.result.value =
                  Expval(RunTape([i \in 0..3 |-> 0], tape), call.result.measurement)

\* C9 witness: the circuit run on 1011 with a different angle at every position
C9_Witness ==
    /\ call.fn = "circuit"
    /\ call.args[1] = DistinctAngles
    /\ call.args[2] = << 1, 0, 1, 1 >>
    /\ Len(call.result.tape) = 17

\* C10: the probability vectors sum to one: the vector [|alpha|^2, |beta|^2]
\* that quantum_algorithm hands to the sampler for U|0> (so the sampler accepts
\* it), and the vector apply_h_and_measure returns for 0 and for 1, which is
\* [1/2, 1/2].
C10_ProbabilitiesSumToOne ==
    /\ call.fn = "quantum_algorithm" =>
          /\ Len(call.result.p) = 2
          /\ QAdd(call.result.p[1], call.result.p[2]) = QInt(1)
          /\ call.result.p[1].n >= 0 /\ call.result.p[2].n >= 0
          /\ call.result.outcome.error = ""
    /\ call.fn = "apply_h_and_measure" =>
          /\ call.args[1] \in {0, 1}
          /\ call.result = << Q(1, 2), Q(1, 2) >>
          /\ QAdd(call.result[1], call.result[2]) = QInt(1)

\* C10 witness: quantum_algorithm has run on U|0> = (|0> + |1>)/sqrt(2) and the
\* sampler returned both outcomes
C10_Witness ==
    /\ call.fn = "quantum_algorithm"
    /\ call.result.p = << Q(1, 2), Q(1, 2) >>
    /\ call.result.outcome.ones = 37

Exercises == {"quantum_algorithm", "apply_h_and_measure", "measure_state"}

\* C11 as stated: an exercise evaluated twice on the same input yields the same
\* result, measure_state and quantum_algorithm included.
C11_SameInputSameResult ==
    (call.fn \in Exercises /\ call.again # <<>>) => call.again[1] = call.result

\* C11, amended: an exercise returning exact probabilities
\* (apply_h_and_measure) yields the same result when evaluated twice on the same
\* input.  measure_state and quantum_algorithm sample from the unseeded
\* generator: both evaluations sample from the same distribution (for
\* quantum_algorithm [1/2, 1/2]) and return the same number of samples, num_meas
\* values of 0 or 1, and they are sure to agree only when the measured state is a
\* basis state.
C11_SameDistributionNotSameSamples ==
    call.again # <<>> =>
        /\ call.fn = "apply_h_and_measure" => call.again[1] = call.result
        /\ call.fn = "quantum_algorithm" =>
              /\ call.again[1].p = call.result.p
              /\ call.result.p = << Q(1, 2), Q(1, 2) >>
              /\ call.result.outcome.error = ""
              /\ call.again[1].outcome.error = ""
              /\ call.result.outcome.ones \in 0..NumMeas
              /\ call.again[1].outcome.ones \in 0..NumMeas
        /\ call.fn = "measure_state" =>
              /\ call.again[1].prob_0 = call.result.prob_0
              /\ call.result.ones \in 0..call.args[2]
              /\ call.again[1].ones \in 0..call.args[2]
              /\ call.result.prob_0 \in {QInt(0), QInt(1)} =>
                    call.again[1] = call.result
              /\ call.result.prob_0 = QInt(1) => call.result.ones = 0
              /\ call.result.prob_0 = QInt(0) => call.result.ones = call.args[2]

\* C11 witness: quantum_algorithm evaluated twice, with 37 ones among the 100
\* outcomes the first time and 63 the second
C11_Witness ==
    /\ call.fn = "quantum_algorithm"
    /\ call.again # <<>>
    /\ call.result.outcome.ones = 37
    /\ call.again[1].outcome.ones = 63
    /\ call.again[1].p = call.result.p

\* amplitudes written out: 1/sqrt(2) = (w - w^3)/2 and i/sqrt(2) = (w + w^3)/2
InvSqrt2 == [c |-> <<0, 1, 0, -1>>, k |-> 1]
MinusInvSqrt2 == [c |-> <<0, -1, 0, 1>>, k |-> 1]
ImagInvSqrt2 == [c |-> <<0, 1, 0, 1>>, k |-> 1]
ImagUnit == [c |-> <<0, 0, 1, 0>>, k |-> 0]
MinusImagUnit == [c |-> <<0, 0, -1, 0>>, k |-> 0]
MinusOne == [c |-> <<-1, 0, 0, 0>>, k |-> 0]
Nought == [c |-> <<0, 0, 0, 0>>, k |-> 0]
Unity == [c |-> <<1, 0, 0, 0>>, k |-> 0]

\* the state |c1 c2> tensor (a0 |0> + a1 |1>) of three wires
ControlsAndTarget(c, a0, a1) ==
    [idx \in 0..7 |->
        IF idx = 4 * c[1] + 2 * c[2] THEN a0
        ELSE IF idx = 4 * c[1] + 2 * c[2] + 1 THEN a1
        ELSE Nought]

\* the matrices of X, Z and Y, as the images of |0> and of |1>
PauliColumns(name) ==
    CASE name = "X" -> << <<Nought, Unity>>, <<Unity, Nought>> >>
      [] name = "Z" -> << <<Unity, Nought>>, <<Nought, MinusOne>> >>
      [] name = "Y" -> << <<Nought, ImagUnit>>, <<MinusImagUnit, Nought>> >>

\* the operation the claim names for each pair of controls
NamedOperation(c) ==
    CASE c = <<0, 1>> -> "X"
      [] c = <<1, 0>> -> "Z"
      [] c = <<1, 1>> -> "Y"

\* C13: for controls 01, 10 and 11 the multiplexer of apply_control_sequence
\* acts on the third qubit as X, Z and Y: it takes |c 0> and |c 1> to c tensor
\* the images of |0> and |1> under that matrix, and the state returned is c
\* tensor that matrix applied to |-> = (|0> - |1>)/sqrt(2), which for 01 is
\* |01> tensor (-|0> + |1>)/sqrt(2).
C13_MultiplexerAppliesXZY ==
    (call.fn = "apply_control_sequence" /\ call.args[1] # <<0, 0>>) =>
        LET c == call.args[1]
            G == PauliColumns(NamedOperation(c))
        IN  /\ \A t \in {0, 1} :
                  RunGates(3, ControlsAndTarget(c, IF t = 0 THEN Unity ELSE Nought,
                                                   IF t = 1 THEN Unity ELSE Nought),
                           Multiplexer)
                  = ControlsAndTarget(c, G[t + 1][1], G[t + 1][2])
            /\ c = <<0, 1>> =>
                  call.result = ControlsAndTarget(c, MinusInvSqrt2, InvSqrt2)
            /\ c = <<1, 0>> =>
                  call.result = ControlsAndTarget(c, InvSqrt2, InvSqrt2)
            /\ c = <<1, 1>> =>
                  call.result = ControlsAndTarget(c, ImagInvSqrt2, ImagInvSqrt2)

\* C13 witness: apply_control_sequence has run with controls 11, where the
\* amplitudes returned are imaginary
C13_Witness ==
    /\ call.fn = "apply_control_sequence"
    /\ call.args[1] = <<1, 1>>
    /\ call.result[6] = ImagInvSqrt2
    /\ call.result[7] = ImagInvSqrt2

\* C14: from |00> each circuit returns the Bell state of its comment, signs
\* included: prepare_psi_plus (|00> + |11>)/sqrt(2), prepare_psi_minus
\* (|00> - |11>)/sqrt(2), prepare_phi_plus (|01> + |10>)/sqrt(2) and
\* prepare_phi_minus (|01> - |10>)/sqrt(2).
C14_BellStatesAsNamed ==
    /\ call.fn = "prepare_psi_plus" =>
          call.result = [idx \in 0..3 |->
                            CASE idx = 0 -> InvSqrt2 [] idx = 3 -> InvSqrt2
                              [] OTHER -> Nought]
    /\ call.fn = "prepare_psi_minus" =>
          call.result = [idx \in 0..3 |->
                            CASE idx = 0 -> InvSqrt2 [] idx = 3 -> MinusInvSqrt2
                              [] OTHER -> Nought]
    /\ call.fn = "prepare_phi_plus" =>
          call.result = [idx \in 0..3 |->
                            CASE idx = 1 -> InvSqrt2 [] idx = 2 -> InvSqrt2
                              [] OTHER -> Nought]
    /\ call.fn = "prepare_phi_minus" =>
          call.result = [idx \in 0..3 |->
                            CASE idx = 1 -> InvSqrt2 [] idx = 2 -> MinusInvSqrt2
                              [] OTHER -> Nought]

\* C14 witness: prepare_phi_minus has run, and |10> has the negative amplitude
C14_Witness ==
    /\ call.fn = "prepare_phi_minus"
    /\ call.result[1] = InvSqrt2
    /\ call.result[2] = MinusInvSqrt2

=============================================================================
